---- MODULE Spec2Model ----
(***************************************************************************)
(* Model of jtdubs/interact: the buffered pattern-matching Reader          *)
(* (class Interact in src/interact.py) over a socket Byte Source           *)
(* (class SocketBackend).  Bytes are small naturals, byte strings are      *)
(* sequences, the monotonic clock is a natural number of ticks.            *)
(* Spec is the Reader's calls; SessionSpec is a session scope of main with *)
(* the Interaction Loop, over either Byte Source (SocketBackend or         *)
(* ProcessBackend).                                                        *)
(***************************************************************************)
EXTENDS Integers, Sequences, FiniteSets, TLC

\* ---------------------------------------------------------------- bounds
MaxStream  == 2   \* total number of bytes the source delivers
MaxChunk   == 2   \* longest chunk one backend read returns
MaxClock   == 4   \* last clock reading explored
MaxTimeout == 2   \* largest caller-supplied timeout
MaxDelay   == 1   \* longest wait of an untimed recv before data or EOF arrives
MaxLines   == 2   \* console lines one run of the Interaction Loop reads
MaxArrive  == 2   \* chunks one run of the Interaction Loop receives
MaxCloses  == 2   \* close() calls the caller makes besides the scope's own

\* ---------------------------------------------------------------- values
Alphabet == {1, 2}

\* Python's None is <<>>, any other value x is <<x>>.
None == <<>>
Some(x) == <<x>>

\* a test `is not None` in place of truthiness (not what the code does)
TruthyNotNone(o) == o # <<>>

\* Python truthiness of an optional number: None and 0 are false.
Truthy(o) == o # None /\ o[1] # 0

SeqsUpTo(S, n) == UNION {[1..k -> S] : k \in 0..n}

ByteStrings(n) == SeqsUpTo(Alphabet, n)

\* The patterns callers pass: every literal of one or two bytes (bytes for
\* read_until, compiled literal regular expressions for expect).
Patterns == [1..1 -> Alphabet] \cup [1..2 -> Alphabet]

\* The pattern lists callers pass to expect: two patterns of different lengths,
\* in either order.
OptionLists == {o \in Patterns \X Patterns : Len(o[1]) # Len(o[2])}

\* timeout arguments: None, 0, or a positive number of ticks.
Timeouts == {None} \cup {Some(t) : t \in 0..MaxTimeout}

\* chunks one backend read can return (at least one byte).
Chunks == ByteStrings(MaxChunk) \ {<<>>}

\* ---------------------------------------------------------------- helpers
\* buf[:i] and buf[i:]
Take(buf, i) == SubSeq(buf, 1, i)
Drop(buf, i) == SubSeq(buf, i + 1, Len(buf))

Occurs(buf, P, i) == i + Len(P) <= Len(buf) /\ SubSeq(buf, i + 1, i + Len(P)) = P

OccurrenceStarts(buf, P) == {i \in 0..Len(buf) : Occurs(buf, P, i)}

Min(S) == CHOOSE x \in S : \A y \in S : x <= y

\* bytes.find: 0-based start of the first occurrence, -1 when absent.
Find(buf, P) ==
    IF OccurrenceStarts(buf, P) = {} THEN -1 ELSE Min(OccurrenceStarts(buf, P))

\* pattern.search(buf) for a literal pattern: the leftmost match as
\* <<start, end>>, or None.
Search(P, buf) ==
    IF Find(buf, P) >= 0 THEN <<Find(buf, P), Find(buf, P) + Len(P)>> ELSE None

\* ---------------------------------------------------------------- state
VARIABLES
    buffer,     \* Interact.buffer: received, not yet consumed bytes
    socket,     \* SocketBackend.socket: TRUE while the handle is live, FALSE once None
    srcEnded,   \* the peer closed and nothing is pending: recv returns b''
    now,        \* the reading of time.monotonic()
    pc,         \* position of the running call: idle, while, body, retry, drain, done, blocked
    op,         \* the running (or last) call: none, read_until, expect, read_all
    match,      \* read_until's argument match
    options,    \* expect's argument options
    timeout,    \* the local variable timeout of read_until / expect
    deadline,   \* the local variable deadline of read_until / expect
    result,     \* how the last call ended: its return value or the exception raised
    recv,       \* history: every byte a backend read handed to the Reader, in order
    out,        \* history: the consumed results returned so far, concatenated
    t0,         \* history: clock reading at entry of the call
    timeout0,   \* history: the timeout argument as the caller passed it
    buf0,       \* history: the buffer at entry of the call
    chunks,     \* history: the chunks backend reads returned during the call
    blocked,    \* history: time the call has spent inside backend reads
    backend,    \* Interact.backend: "socket" (SocketBackend) or "process" (ProcessBackend)
    process,    \* ProcessBackend.process: TRUE while the handle is live, FALSE once None
    lpc,        \* position in the session scope of main: none, entered, running,
                \* terminated, raised, exited, finalized
    event,      \* what the Interaction Loop (or the scope) handled last
    wres,       \* how the last backend write ended: none, ok, swallowed, raise
    typed,      \* history: the non-empty lines interact read from the console
    written,    \* history: the byte strings handed to backend.write, in order
    arrived,    \* history: the chunks backend reads returned to interact
    shown,      \* console output written and flushed, one entry per write
    unflushed,  \* console output written to sys.stdout and not flushed yet
    closeCalls, \* history: number of close() calls on the backend
    released    \* history: number of times the OS resource was released

\* the session part of the state; the Reader's calls leave it alone
sessVars == <<backend, process, lpc, event, wres, typed, written, arrived, shown,
              unflushed, closeCalls, released>>

\* the state of a Reader call and the clock; the session's steps leave it alone
callVars == <<now, pc, op, match, options, timeout, deadline, result, recv, out,
              t0, timeout0, buf0, chunks, blocked>>

vars == <<buffer, socket, srcEnded, now, pc, op, match, options, timeout, deadline,
          result, recv, out, t0, timeout0, buf0, chunks, blocked, sessVars>>

NoResult == [kind |-> "none", index |-> -1, span |-> None, text |-> <<>>, exc |-> ""]

\* `return text` of read_until and read_all
Returned(text) == [kind |-> "return", index |-> -1, span |-> None, text |-> text, exc |-> ""]

\* `return (i, m, text)` of expect
ReturnedMatch(i, m, text) ==
    [kind |-> "return", index |-> i, span |-> m, text |-> text, exc |-> ""]

Raised(e) == [kind |-> "raise", index |-> -1, span |-> None, text |-> <<>>, exc |-> e]

\* Interact.__init__ over a connected SocketBackend
Init ==
    /\ buffer = <<>>
    /\ socket = TRUE
    /\ srcEnded = FALSE
    /\ now = 1
    /\ pc = "idle"
    /\ op = "none"
    /\ match = <<>>
    /\ options = <<>>
    /\ timeout = None
    /\ deadline = None
    /\ result = NoResult
    /\ recv = <<>>
    /\ out = <<>>
    /\ t0 = 1
    /\ timeout0 = None
    /\ buf0 = <<>>
    /\ chunks = <<>>
    /\ blocked = 0
    /\ backend = "socket"
    /\ process = FALSE
    /\ lpc = "none"
    /\ event = "none"
    /\ wres = "none"
    /\ typed = <<>>
    /\ written = <<>>
    /\ arrived = <<>>
    /\ shown = <<>>
    /\ unflushed = <<>>
    /\ closeCalls = 0
    /\ released = 0

\* ---------------------------------------------------------------- Byte Source
Outcome(k, c, d) == [kind |-> k, data |-> c, dt |-> d]

\* What the peer does next, and after how long: a chunk arrives, the stream
\* ends, or nothing ever happens ("never").
Arrivals ==
    IF srcEnded THEN {Outcome("eof", <<>>, 0)}
    ELSE {Outcome("data", c, d) : c \in {x \in Chunks : Len(recv) + Len(x) <= MaxStream},
                                  d \in 0..MaxDelay}
         \cup {Outcome("eof", <<>>, d) : d \in 0..MaxDelay}
         \cup {Outcome("never", <<>>, 0)}

\* SocketBackend.read(t): the outcomes of one call, each with the time it took.
\*   data         recv returned a non-empty chunk
\*   EOFError     the handle is closed, or recv returned b''
\*   TimeoutError `if timeout:` held and select(t) found nothing ready within t
\*   block        no select was made (t is None or 0) and recv never returns
BackendRead(t) ==
    IF ~socket THEN {Outcome("EOFError", <<>>, 0)}
    ELSE IF Truthy(t)
    THEN {Outcome(IF a.kind = "data" THEN "data" ELSE "EOFError", a.data, a.dt) :
              a \in {x \in Arrivals : x.kind # "never" /\ x.dt < t[1]}}
         \cup {Outcome("TimeoutError", <<>>, t[1]) :
                  a \in {x \in Arrivals : x.kind = "never" \/ x.dt >= t[1]}}
    ELSE {Outcome(IF a.kind = "data" THEN "data" ELSE "EOFError", a.data, a.dt) :
              a \in {x \in Arrivals : x.kind # "never"}}
         \cup {Outcome("block", <<>>, 0) : a \in {x \in Arrivals : x.kind = "never"}}

\* SocketBackend.close
Close ==
    /\ UNCHANGED sessVars
    /\ pc = "idle"
    /\ socket' = FALSE
    /\ UNCHANGED <<buffer, srcEnded, now, pc, op, match, options, timeout, deadline,
                   result, recv, out, t0, timeout0, buf0, chunks, blocked>>

\* time.monotonic() advances on its own, between any two steps of the program
Tick ==
    /\ UNCHANGED sessVars
    /\ now < MaxClock
    /\ now' = now + 1
    /\ UNCHANGED <<buffer, socket, srcEnded, pc, op, match, options, timeout, deadline,
                   result, recv, out, t0, timeout0, buf0, chunks, blocked>>

\* ---------------------------------------------------------------- Reader
\* `self.buffer = chunk`: the buffered bytes are dropped (not what the code does)
BufferOverwrite(buf, c) == c

\* `self.buffer += chunk`
BufferAppend(buf, c) == buf \o c

\* entry of read_until / expect: `deadline = None; if timeout: deadline = _time() + timeout`
EntryDeadline(t) == IF Truthy(t) THEN Some(now + t[1]) ELSE None

ReadUntilCall(P, t) ==
    /\ UNCHANGED sessVars
    /\ pc = "idle"
    /\ op' = "read_until"
    /\ match' = P
    /\ options' = <<>>
    /\ timeout' = t
    /\ deadline' = EntryDeadline(t)
    /\ pc' = "while"
    /\ result' = NoResult
    /\ t0' = now
    /\ timeout0' = t
    /\ buf0' = buffer
    /\ chunks' = <<>>
    /\ blocked' = 0
    /\ UNCHANGED <<buffer, socket, srcEnded, now, recv, out>>

ExpectCall(opts, t) ==
    /\ UNCHANGED sessVars
    /\ pc = "idle"
    /\ op' = "expect"
    /\ match' = <<>>
    /\ options' = opts
    /\ timeout' = t
    /\ deadline' = EntryDeadline(t)
    /\ pc' = "while"
    /\ result' = NoResult
    /\ t0' = now
    /\ timeout0' = t
    /\ buf0' = buffer
    /\ chunks' = <<>>
    /\ blocked' = 0
    /\ UNCHANGED <<buffer, socket, srcEnded, now, recv, out>>

\* `while not deadline or _time() <= deadline`
LoopCondition == ~Truthy(deadline) \/ now <= deadline[1]

\* The loop test, and what follows the loop when it fails: read_until returns
\* b''; expect evaluates `(-1, None, text)`, where the local `text` is bound
\* only on the path that has already returned, so Python raises
\* UnboundLocalError.
LoopTest ==
    /\ UNCHANGED sessVars
    /\ pc = "while"
    /\ IF LoopCondition
       THEN /\ pc' = "body"
            /\ UNCHANGED result
       ELSE /\ pc' = "done"
            /\ result' = IF op = "read_until" THEN Returned(<<>>)
                         ELSE Raised("UnboundLocalError")
    /\ UNCHANGED <<buffer, socket, srcEnded, now, op, match, options, timeout, deadline,
                   recv, out, t0, timeout0, buf0, chunks, blocked>>

\* a scan that looks only at the chunk that arrived last (not what the code does)
ReadUntilFindNewOnly ==
    IF chunks = <<>> THEN Find(buffer, match)
    ELSE IF Find(chunks[Len(chunks)], match) < 0 THEN -1
    ELSE Len(buffer) - Len(chunks[Len(chunks)]) + Find(chunks[Len(chunks)], match)

\* `i = self.buffer.find(match)`: every pass scans the whole buffer
ReadUntilFind == Find(buffer, match)

\* read_until, one pass of the loop body up to the read: on a hit
\* `i += len(match)`, result = buffer[:i], buffer = buffer[i:], return result.
ReadUntilBody ==
    /\ UNCHANGED sessVars
    /\ pc = "body"
    /\ op = "read_until"
    /\ LET i == ReadUntilFind IN
       IF i >= 0
       THEN /\ result' = Returned(Take(buffer, i + Len(match)))
            /\ buffer' = Drop(buffer, i + Len(match))
            /\ out' = out \o Take(buffer, i + Len(match))
            /\ pc' = "done"
       ELSE /\ pc' = "retry"
            /\ UNCHANGED <<result, buffer, out>>
    /\ UNCHANGED <<socket, srcEnded, now, op, match, options, timeout, deadline,
                   recv, t0, timeout0, buf0, chunks, blocked>>

Hits(opts, buf) == {i \in 1..Len(opts) : Search(opts[i], buf) # None}

\* the pattern whose match starts first (not what the code does)
ExpectPickLeftmost(opts, buf) ==
    IF Hits(opts, buf) = {} THEN -1
    ELSE (CHOOSE i \in Hits(opts, buf) :
              \A j \in Hits(opts, buf) :
                  \/ Search(opts[i], buf)[1] < Search(opts[j], buf)[1]
                  \/ Search(opts[i], buf)[1] = Search(opts[j], buf)[1] /\ i <= j) - 1

\* `for i in indices: m = options[i].search(self.buffer); if m: ...`: the
\* 0-based index of the first pattern of the list that matches, -1 when none.
ExpectPick(opts, buf) ==
    IF Hits(opts, buf) = {} THEN -1 ELSE Min(Hits(opts, buf)) - 1

\* expect, one pass of the loop body up to the read: on a hit e = m.end(),
\* text = buffer[:e], buffer = buffer[e:], return (i, m, text).
ExpectBody ==
    /\ UNCHANGED sessVars
    /\ pc = "body"
    /\ op = "expect"
    /\ LET i == ExpectPick(options, buffer) IN
       IF i >= 0
       THEN LET m == Search(options[i + 1], buffer) IN
            /\ result' = ReturnedMatch(i, m, Take(buffer, m[2]))
            /\ buffer' = Drop(buffer, m[2])
            /\ out' = out \o Take(buffer, m[2])
            /\ pc' = "done"
       ELSE /\ pc' = "retry"
            /\ UNCHANGED <<result, buffer, out>>
    /\ UNCHANGED <<socket, srcEnded, now, op, match, options, timeout, deadline,
                   recv, t0, timeout0, buf0, chunks, blocked>>

\* a failed read that takes the buffered bytes with it (not what the code does)
BufferDroppedOnFailedRead(buf) == <<>>

\* `self.buffer += self.backend.read(timeout)` when the read raises: the
\* exception leaves the statement before the assignment, the buffer stays.
BufferAfterFailedRead(buf) == buf

\* `if timeout: timeout = deadline = _time()`
RetryTimeout == IF Truthy(timeout) THEN Some(now) ELSE timeout
RetryDeadline == IF Truthy(timeout) THEN Some(now) ELSE deadline

\* read_until / expect, the rest of the loop body:
\* `if timeout: timeout = deadline = _time()` and
\* `self.buffer += self.backend.read(timeout)`; an exception of the read
\* leaves the call before the buffer is assigned.
Retry ==
    /\ UNCHANGED sessVars
    /\ pc = "retry"
    /\ timeout' = RetryTimeout
    /\ deadline' = RetryDeadline
    /\ \E o \in BackendRead(RetryTimeout) :
         /\ now + o.dt <= MaxClock
         /\ now' = now + o.dt
         /\ blocked' = blocked + o.dt
         /\ CASE o.kind = "data" ->
                   /\ buffer' = BufferAppend(buffer, o.data)
                   /\ recv' = recv \o o.data
                   /\ chunks' = Append(chunks, o.data)
                   /\ pc' = "while"
                   /\ UNCHANGED <<result, srcEnded>>
              [] o.kind = "block" ->
                   /\ pc' = "blocked"
                   /\ UNCHANGED <<buffer, recv, chunks, result, srcEnded>>
              [] OTHER ->
                   /\ result' = Raised(o.kind)
                   /\ srcEnded' = (srcEnded \/ (socket /\ o.kind = "EOFError"))
                   /\ pc' = "done"
                   /\ buffer' = BufferAfterFailedRead(buffer)
                   /\ UNCHANGED <<recv, chunks>>
    /\ UNCHANGED <<socket, op, match, options, out, t0, timeout0, buf0>>

\* read_all, entry
ReadAllCall ==
    /\ UNCHANGED sessVars
    /\ pc = "idle"
    /\ op' = "read_all"
    /\ match' = <<>>
    /\ options' = <<>>
    /\ timeout' = None
    /\ deadline' = None
    /\ pc' = "drain"
    /\ result' = NoResult
    /\ t0' = now
    /\ timeout0' = None
    /\ buf0' = buffer
    /\ chunks' = <<>>
    /\ blocked' = 0
    /\ UNCHANGED <<buffer, socket, srcEnded, now, recv, out>>

\* read_all without its `self.buffer = b''` (not what the code does)
ReadAllKeep(buf) == buf

\* what read_all leaves in the buffer after `result = self.buffer`: `self.buffer = b''`
ReadAllRest(buf) == <<>>

\* read_all: one `self.buffer += self.backend.read()` of the `while True`,
\* or `except EOFError: pass` and the return that clears the buffer.
ReadAllStep ==
    /\ UNCHANGED sessVars
    /\ pc = "drain"
    /\ \E o \in BackendRead(None) :
         /\ now + o.dt <= MaxClock
         /\ now' = now + o.dt
         /\ blocked' = blocked + o.dt
         /\ CASE o.kind = "data" ->
                   /\ buffer' = BufferAppend(buffer, o.data)
                   /\ recv' = recv \o o.data
                   /\ chunks' = Append(chunks, o.data)
                   /\ UNCHANGED <<pc, result, srcEnded, out>>
              [] o.kind = "block" ->
                   /\ pc' = "blocked"
                   /\ UNCHANGED <<buffer, recv, chunks, result, srcEnded, out>>
              [] o.kind = "EOFError" ->
                   /\ result' = Returned(buffer)
                   /\ out' = out \o buffer
                   /\ buffer' = ReadAllRest(buffer)
                   /\ srcEnded' = (srcEnded \/ socket)
                   /\ pc' = "done"
                   /\ UNCHANGED <<recv, chunks>>
              [] OTHER ->
                   /\ result' = Raised(o.kind)
                   /\ pc' = "done"
                   /\ UNCHANGED <<buffer, recv, chunks, srcEnded, out>>
    /\ UNCHANGED <<socket, op, match, options, timeout, deadline, t0, timeout0, buf0>>

\* The call has ended: the caller has its result (or its exception) and the
\* call's locals are gone.
Finish ==
    /\ UNCHANGED sessVars
    /\ pc = "done"
    /\ pc' = "idle"
    /\ op' = "none"
    /\ match' = <<>>
    /\ options' = <<>>
    /\ timeout' = None
    /\ deadline' = None
    /\ result' = NoResult
    /\ t0' = 1
    /\ timeout0' = None
    /\ buf0' = <<>>
    /\ chunks' = <<>>
    /\ blocked' = 0
    /\ UNCHANGED <<buffer, socket, srcEnded, now, recv, out>>

Next ==
    \/ \E P \in Patterns, t \in Timeouts : ReadUntilCall(P, t)
    \/ \E opts \in OptionLists, t \in Timeouts : ExpectCall(opts, t)
    \/ ReadAllCall
    \/ LoopTest
    \/ ReadUntilBody
    \/ ExpectBody
    \/ Retry
    \/ ReadAllStep
    \/ Finish
    \/ Close
    \/ Tick

Spec == Init /\ [][Next]_vars

\* ---------------------------------------------------------------- properties
\* Vocabulary of the properties, stated without the operators of the model.
RECURSIVE Flatten(_)
Flatten(cs) == IF cs = <<>> THEN <<>> ELSE Head(cs) \o Flatten(Tail(cs))

Front(s) == SubSeq(s, 1, Len(s) - 1)

IsPrefix(x, b) == Len(x) <= Len(b) /\ SubSeq(b, 1, Len(x)) = x

\* P occurs in b and ends at position k (1-based, inclusive)
EndsAt(b, P, k) == k >= Len(P) /\ k <= Len(b) /\ SubSeq(b, k - Len(P) + 1, k) = P

OccursIn(b, P) == \E k \in 1..Len(b) : EndsAt(b, P, k)

\* x is the prefix of b that ends with the first occurrence of P in b
FirstOccurrencePrefix(x, b, P) ==
    /\ IsPrefix(x, b)
    /\ EndsAt(b, P, Len(x))
    /\ \A k \in 1..(Len(x) - 1) : ~EndsAt(b, P, k)

\* the bytes a scan call has had to look at: its entry buffer and what it read
Accumulated == buf0 \o Flatten(chunks)

Timed == Truthy(timeout0)

\* C1: for every buffer B and non-empty pattern P occurring in B,
\* read_until(P, timeout), for any timeout or none, returns the prefix of B
\* ending with the first occurrence of P, leaves the suffix after it in the
\* buffer, and performs no read on the Byte Source.
C1_BufferedMatchReturned ==
    (op = "read_until" /\ OccursIn(buf0, match)) =>
        /\ chunks = <<>>
        /\ pc \notin {"retry", "blocked"}
        /\ pc = "done" =>
              /\ result.kind = "return"
              /\ FirstOccurrencePrefix(result.text, buf0, match)
              /\ buf0 = result.text \o buffer

C3_TimedReadUntilNeverRaisesTimeout ==
    (pc = "done" /\ op = "read_until" /\ Timed) =>
        ~(result.kind = "raise" /\ result.exc = "TimeoutError")

\* C4: a timed expect that finds no pattern before the deadline returns
\* (-1, None, text) as an ordinary value; it does not raise.
C4_TimedExpectReturnsSentinel ==
    (pc = "done" /\ op = "expect" /\ Timed
        /\ \A j \in 1..Len(options) : ~OccursIn(Accumulated, options[j])
        /\ ~(result.kind = "raise" /\ result.exc = "EOFError")) =>
        (result.kind = "return" /\ result.index = -1 /\ result.span = None)

\* the patterns the running scan call looks for
Wanted == IF op = "read_until" THEN {match} ELSE {options[j] : j \in 1..Len(options)}

ScanCall == op \in {"read_until", "expect"}

\* the call went past its loop: read_until returned b'', expect got to its
\* `return (-1, None, text)`
GaveUp ==
    /\ pc = "done"
    /\ \/ op = "read_until" /\ result.kind = "return" /\ result.text = <<>>
       \/ op = "expect" /\ result.kind = "return" /\ result.index = -1
       \/ op = "expect" /\ result.kind = "raise" /\ result.exc = "UnboundLocalError"

\* C5: a timed scan call that starts without a match rescans the whole
\* buffer after every batch it reads: it never gives up (no-match result)
\* while the buffer contains a pattern it was asked for.
C5_NoGiveUpWithMatchBuffered ==
    (ScanCall /\ Timed /\ GaveUp /\ \A P \in Wanted : ~OccursIn(buf0, P)) =>
        \A P \in Wanted : ~OccursIn(buffer, P)

\* C6: a timed read_until whose pattern never appears does not give up before
\* its timeout has elapsed since call entry, whatever non-matching data arrives.
C6_NoGiveUpBeforeDeadline ==
    (op = "read_until" /\ Timed /\ GaveUp /\ ~OccursIn(buffer, match)) =>
        now >= t0 + timeout0[1]

\* C7: a timed scan call always terminates, and the time it spends blocked in
\* Byte Source reads is at most its timeout.
C7_BlockedAtMostTimeout ==
    (ScanCall /\ Timed) => (pc # "blocked" /\ blocked <= timeout0[1])

\* C8: read_until(P) without timeout, started on an empty buffer, over any
\* split of the stream into chunks: it returns the prefix of the accumulated
\* bytes that ends with the first occurrence of P, right after the read that
\* delivered the chunk completing that occurrence, and reads no chunk beyond it.
C8_StraddlingMatchFound ==
    (op = "read_until" /\ timeout0 = None /\ buf0 = <<>>) =>
        /\ pc \in {"retry", "blocked"} => ~OccursIn(buffer, match)
        /\ ~GaveUp
        /\ (pc = "done" /\ result.kind = "return") =>
              /\ FirstOccurrencePrefix(result.text, Flatten(chunks), match)
              /\ Flatten(chunks) = result.text \o buffer
              /\ chunks # <<>>
              /\ ~OccursIn(Flatten(Front(chunks)), match)

\* the pattern was cut in two by the chunk boundary and found all the same
C8_Witness ==
    /\ pc = "done" /\ op = "read_until" /\ timeout0 = None /\ buf0 = <<>>
    /\ result.kind = "return"
    /\ Len(chunks) = 2
    /\ \A j \in 1..2 : ~OccursIn(chunks[j], match)

\* C9: read_all returns the entry buffer followed by every chunk the source
\* yields up to its end, in order, leaves the buffer empty, and does not let
\* the end-of-stream condition reach the caller.
C9_ReadAllDrains ==
    (op = "read_all" /\ pc = "done") =>
        /\ result = Returned(buf0 \o Flatten(chunks))
        /\ buffer = <<>>
        /\ (srcEnded \/ ~socket)

\* read_all returned buffered bytes followed by bytes it read itself
C9_Witness ==
    /\ op = "read_all" /\ pc = "done"
    /\ buf0 # <<>> /\ chunks # <<>>
    /\ result.text = buf0 \o Flatten(chunks)

\* C10: at every moment, the consumed results returned so far, concatenated
\* in call order, followed by the buffer, are exactly the bytes read from the
\* Byte Source so far.
C10_BytesConserved == out \o buffer = recv

\* an expect call has consumed a prefix and left a remainder buffered
C10_Witness ==
    /\ pc = "done" /\ op = "expect" /\ result.kind = "return"
    /\ out # <<>> /\ buffer # <<>>
    /\ recv = out \o buffer

\* C14: within one timed read_until or expect call the deadline is computed
\* once, at entry (entry time + timeout), and keeps that value through every
\* pass of the retry loop.
C14_DeadlineFixed ==
    (ScanCall /\ Timed) => deadline = Some(t0 + timeout0[1])

NonNegative(n) == IF n < 0 THEN 0 ELSE n

\* C15: in every retry of a timed read_until or expect call the timeout handed
\* to the Byte Source read is max(0, deadline - now), deadline being entry
\* time + timeout: never more than the caller's timeout, never a clock reading.
C15_ReadTimeoutIsRemainingTime ==
    [][(ScanCall /\ Timed /\ pc = "retry" /\ pc' # "retry") =>
           timeout' = Some(NonNegative(t0 + timeout0[1] - now))]_vars

\* C16: a Byte Source read with timeout zero never blocks (data if ready,
\* Timeout otherwise); only an absent timeout lets a read block indefinitely.
C16_OnlyAbsentTimeoutBlocks ==
    pc = "blocked" => timeout = None

\* C19: when a backend read inside read_until or expect fails with EOFError or
\* TimeoutError, the call ends with that exception and the buffer holds
\* everything it held before the failing read: nothing is consumed or lost,
\* and a read_all that follows returns every byte received and not yet returned.
C19_FailedReadKeepsBuffer ==
    /\ (ScanCall /\ pc = "done" /\ result.kind = "raise"
            /\ result.exc \in {"EOFError", "TimeoutError"}) =>
           /\ buffer = buf0 \o Flatten(chunks)
           /\ out \o buffer = recv
    /\ (op = "read_all" /\ pc = "done") =>
           /\ result.kind = "return"
           /\ out = recv
           /\ buffer = <<>>

\* a call read a chunk, kept it, and then ended on a failing read
C19_Witness ==
    /\ ScanCall /\ pc = "done" /\ result.kind = "raise"
    /\ result.exc \in {"EOFError", "TimeoutError"}
    /\ chunks # <<>>
    /\ buffer = buf0 \o Flatten(chunks)

\* C20: a timeout of 0 given to read_until or expect acts like an absent one:
\* no deadline is set, the loop test never fails, every backend read is made
\* with a timeout the backend treats as absent (same outcomes as None), and
\* the call never gives up nor sees a TimeoutError.
C20_ZeroTimeoutLikeNone ==
    /\ EntryDeadline(Some(0)) = EntryDeadline(None)
    /\ BackendRead(Some(0)) = BackendRead(None)
    /\ (ScanCall /\ timeout0 = Some(0)) =>
           /\ deadline = None
           /\ timeout = Some(0)
           /\ pc = "while" => LoopCondition
           /\ ~GaveUp
           /\ ~(result.kind = "raise" /\ result.exc = "TimeoutError")

\* a call with timeout 0 waited longer than "0" and then returned its match
C20_Witness ==
    /\ ScanCall /\ timeout0 = Some(0)
    /\ pc = "done" /\ result.kind = "return"
    /\ chunks # <<>>
    /\ now > t0

\* ================================================================ session
\* ---------------------------------------------------------------- codecs
\* code points below this are ASCII ('ascii' codec, lines 212 and 220)
AsciiLimit == 128

\* U+FFFD, what decode(errors='replace') puts for an undecodable byte
Replacement == 65533

\* characters a console line is made of: an ASCII one and a non-ASCII one
ConsoleChars == {1, 233}

\* bytes the source sends during the loop: an ASCII one and a non-ASCII one
WireBytes == {1, 200}

\* what sys.stdin.readline() returns: a non-empty line, or '' at end of input
ConsoleLines == [1..1 -> ConsoleChars]
EndOfInput == <<>>

\* what a backend read returns to the loop
LoopChunks == [1..1 -> WireBytes] \cup [1..2 -> WireBytes]

\* str.encode('ascii'): the same code points as bytes, or UnicodeEncodeError
Encodable(line) == \A k \in 1..Len(line) : line[k] < AsciiLimit
Encode(line) == [k \in 1..Len(line) |-> line[k]]

\* bytes.decode('ascii', errors='replace')
DecodeByte(b) == IF b < AsciiLimit THEN b ELSE Replacement
Decode(data) == [k \in 1..Len(data) |-> DecodeByte(data[k])]

\* ---------------------------------------------------------------- backends
\* the handle of the session's backend: self.socket or self.process
Handle == IF backend = "socket" THEN socket ELSE process

\* close() with the guard removed: the resource is released at every call
ReleasesUnguarded(live) == 1

\* close(): `if self.socket: self.socket.close()` /
\*          `if self.process: self.process.terminate()`
Releases(live) == IF live THEN 1 ELSE 0

\* backend.close(): release if live, then set the handle to None
BackendClose ==
    /\ closeCalls' = closeCalls + 1
    /\ released' = released + Releases(Handle)
    /\ socket' = IF backend = "socket" THEN FALSE ELSE socket
    /\ process' = IF backend = "process" THEN FALSE ELSE process

\* what the try body of write can do: sendall / stdin.write succeeds, or it
\* raises (OSError, BrokenPipeError; AttributeError when the handle is None)
WriteAttempts(live) == IF live THEN {"sent", "error"} ELSE {"error"}

\* SocketBackend.write: the bare except logs and falls through
SocketWrite(attempt) == IF attempt = "sent" THEN "ok" ELSE "swallowed"

\* ProcessBackend.write: the bare except logs and re-raises
ProcessWrite(attempt) == IF attempt = "sent" THEN "ok" ELSE "raise"

\* backend.write(bytestring): the outcomes the caller can see
BackendWrite ==
    {IF backend = "socket" THEN SocketWrite(a) ELSE ProcessWrite(a) :
         a \in WriteAttempts(Handle)}

\* ---------------------------------------------------------------- scope
\* `with Interact.command(..) as i:` / `with Interact.host(..) as i:` has
\* acquired the session and entered the body.  The body may have made Reader
\* calls before, which leave any received suffix in the buffer.
SessionInit ==
    /\ backend \in {"socket", "process"}
    /\ socket = (backend = "socket")
    /\ process = (backend = "process")
    /\ buffer \in ByteStrings(MaxStream)
    /\ srcEnded = FALSE
    /\ now = 1
    /\ pc = "idle"
    /\ op = "none"
    /\ match = <<>>
    /\ options = <<>>
    /\ timeout = None
    /\ deadline = None
    /\ result = NoResult
    /\ recv = <<>>
    /\ out = <<>>
    /\ t0 = 1
    /\ timeout0 = None
    /\ buf0 = <<>>
    /\ chunks = <<>>
    /\ blocked = 0
    /\ lpc = "entered"
    /\ event = "none"
    /\ wres = "none"
    /\ typed = <<>>
    /\ written = <<>>
    /\ arrived = <<>>
    /\ shown = <<>>
    /\ unflushed = <<>>
    /\ closeCalls = 0
    /\ released = 0

\* Interact.close() called by the body or by the caller after the scope
ExplicitClose ==
    /\ lpc \in {"entered", "terminated", "raised", "exited"}
    /\ closeCalls < MaxCloses
    /\ BackendClose
    /\ UNCHANGED <<buffer, srcEnded, callVars>>
    /\ UNCHANGED <<backend, lpc, event, wres, typed, written, arrived, shown, unflushed>>

\* Interact.write(buffer) called outside the loop; an exception raised inside
\* the scope's body ends the body
WriteCall ==
    /\ lpc \in {"entered", "exited"}
    /\ \E w \in BackendWrite :
        /\ wres' = w
        /\ lpc' = IF w = "raise" /\ lpc = "entered" THEN "raised" ELSE lpc
        /\ event' = IF w = "raise" /\ lpc = "entered" THEN "write_call" ELSE event
    /\ UNCHANGED <<buffer, socket, srcEnded, callVars>>
    /\ UNCHANGED <<backend, process, typed, written, arrived, shown, unflushed,
                   closeCalls, released>>

\* __exit__ that closes only when the body returned
ExitClosesOnReturnOnly(how) == how = "terminated"

\* __exit__(type, value, traceback) calls close() whatever its arguments are
ExitCloses(how) == TRUE

\* the with statement leaves the body, normally or by exception: __exit__
ScopeExit ==
    /\ lpc \in {"terminated", "raised"}
    /\ lpc' = "exited"
    /\ IF ExitCloses(lpc)
          THEN BackendClose
          ELSE UNCHANGED <<socket, process, closeCalls, released>>
    /\ UNCHANGED <<buffer, srcEnded, callVars>>
    /\ UNCHANGED <<backend, event, wres, typed, written, arrived, shown, unflushed>>

\* __del__: the finalizer closes once more
Finalize ==
    /\ lpc = "exited"
    /\ lpc' = "finalized"
    /\ BackendClose
    /\ UNCHANGED <<buffer, srcEnded, callVars>>
    /\ UNCHANGED <<backend, event, wres, typed, written, arrived, shown, unflushed>>

\* ---------------------------------------------------------------- interact
\* interact() up to the loop: get_read_selector registers the handle, which
\* raises (ValueError / AttributeError) when the backend is closed already
InteractStart ==
    /\ lpc = "entered"
    /\ lpc' = IF Handle THEN "running" ELSE "raised"
    /\ event' = IF Handle THEN event ELSE "no_selector"
    /\ UNCHANGED <<buffer, socket, srcEnded, callVars>>
    /\ UNCHANGED <<backend, process, wres, typed, written, arrived, shown, unflushed,
                   closeCalls, released>>

\* the console is ready: readline, encode, `if not line: return`, self.write
ConsoleReady ==
    /\ lpc = "running"
    /\ \E line \in ConsoleLines \cup {EndOfInput} :
        IF line = EndOfInput
        THEN /\ lpc' = "terminated"
             /\ event' = "console_eof"
             /\ UNCHANGED <<typed, written, wres>>
        ELSE /\ Len(typed) < MaxLines
             /\ typed' = Append(typed, line)
             /\ IF ~Encodable(line)
                THEN /\ lpc' = "raised"
                     /\ event' = "encode_error"
                     /\ UNCHANGED <<written, wres>>
                ELSE \E w \in BackendWrite :
                     /\ written' = Append(written, Encode(line))
                     /\ wres' = w
                     /\ lpc' = IF w = "raise" THEN "raised" ELSE "running"
                     /\ event' = IF w = "ok" THEN "line" ELSE "write_failed"
    /\ UNCHANGED <<buffer, socket, srcEnded, callVars>>
    /\ UNCHANGED <<backend, process, arrived, shown, unflushed, closeCalls, released>>

\* sys.stdout with the flush left out: the text stays in the stream's buffer
NoFlush(pending) == [shown |-> <<>>, left |-> pending]

\* sys.stdout.flush(): everything written so far reaches the console
Flush(pending) == [shown |-> pending, left |-> <<>>]

\* the source is ready: backend.read() with no timeout, then write the decoded
\* chunk to sys.stdout and flush; EOFError returns from interact
SourceReady ==
    /\ lpc = "running"
    /\ \/ /\ ~srcEnded
          /\ Len(arrived) < MaxArrive
          /\ \E data \in LoopChunks :
               LET pending == Append(unflushed, Decode(data))
               IN  /\ arrived' = Append(arrived, data)
                   /\ shown' = shown \o Flush(pending).shown
                   /\ unflushed' = Flush(pending).left
          /\ event' = "data"
          /\ UNCHANGED <<lpc, srcEnded>>
       \/ /\ lpc' = "terminated"
          /\ event' = "source_eof"
          /\ srcEnded' = TRUE
          /\ UNCHANGED <<arrived, shown, unflushed>>
    /\ UNCHANGED <<buffer, socket, callVars>>
    /\ UNCHANGED <<backend, process, wres, typed, written, closeCalls, released>>

SessionNext ==
    \/ InteractStart
    \/ ConsoleReady
    \/ SourceReady
    \/ WriteCall
    \/ ExplicitClose
    \/ ScopeExit
    \/ Finalize

SessionSpec == SessionInit /\ [][SessionNext]_vars

\* ================================================================ session properties
\* what a close call can touch and what a caller can observe of the session
SessionState == <<socket, process, released, buffer, srcEnded, written, shown,
                  unflushed, wres>>

\* a step that calls close(): by the body, by __exit__ or by __del__
CloseStep == closeCalls' = closeCalls + 1

\* C11: close is idempotent for both backends and for the Reader: the first
\* close of an acquired session releases the handle once and sets it to None;
\* every further close releases nothing and leaves the session state exactly
\* as the first close left it.
C11_CloseIdempotent ==
    [][CloseStep =>
          /\ released' = 1
          /\ ~socket' /\ ~process'
          /\ closeCalls >= 1 => UNCHANGED SessionState]_vars

\* the body closed, __exit__ closed again and __del__ closed a third time
C11_Witness ==
    /\ lpc = "finalized"
    /\ closeCalls >= 3
    /\ released = 1
    /\ ~Handle

\* C12: write on a Byte Source never propagates a failure to its caller, for
\* either backend and in every session state: no write ends by raising, and
\* the Interaction Loop is still running after a failed write.
C12_WriteNeverPropagates ==
    /\ wres # "raise"
    /\ event = "write_failed" => lpc = "running"

\* C13: the handle is released on every exit path of the session scope: the
\* step that leaves the scope, after a normal return of the body or after an
\* exception, calls close and leaves the handle released exactly once; the
\* finalizer's later close changes nothing.
C13_ReleasedOnEveryExit ==
    [][/\ (lpc \in {"terminated", "raised"} /\ lpc' = "exited") =>
              /\ CloseStep
              /\ released' = 1
              /\ ~socket' /\ ~process'
       /\ (lpc = "exited" /\ lpc' = "finalized") =>
              /\ CloseStep
              /\ UNCHANGED SessionState]_vars

\* the loop raised, the scope was left and closed, the finalizer closed again
C13_Witness ==
    /\ lpc = "finalized"
    /\ event \in {"write_failed", "encode_error"}
    /\ closeCalls = 2
    /\ released = 1
    /\ ~Handle

\* the events the Interaction Loop handles
LoopEvents == {"line", "data", "write_failed", "encode_error", "console_eof", "source_eof"}

EndEvents == {"console_eof", "source_eof"}

\* C17: the Interaction Loop leaves Running only on console end-of-input or
\* on end-of-stream of a source read, and then by returning normally; it does
\* leave Running when one of the two is handled; a non-empty line, a chunk of
\* data or a failed write leaves it Running.
C17_LoopEndsOnlyOnEndOfInput ==
    /\ (lpc \in {"terminated", "raised"} /\ event \in LoopEvents) =>
           (lpc = "terminated" /\ event \in EndEvents)
    /\ event \in EndEvents => lpc # "running"
    /\ event \in {"line", "data", "write_failed"} => lpc = "running"

====
